---- MODULE Spec2Model ----
(***************************************************************************)
(* Model of the upload-ingest pipeline of ai-q-main:                       *)
(*   byte_source.cpp  consumeToBuffer                                      *)
(*   ingest.cpp       VectorByteSource, sha256Hex, detectMime, stripMime,  *)
(*                    equalsIgnoreParams, isAcceptedMime, validateLengths, *)
(*                    validateMime, ingest                                 *)
(*   test.cpp         RecordingSink::persist (the sink that drains the     *)
(*                    replay source)                                       *)
(* Bytes and characters are their integer codes; a byte buffer and a       *)
(* std::string are sequences of codes.                                     *)
(***************************************************************************)
EXTENDS Integers, Sequences, FiniteSets, TLC

(***************************************************************************)
(* Bounds of the model.                                                    *)
(***************************************************************************)
\* width of size_t in the model (TLC integers are 32 bit wide, so the
\* 64 bit of the build are scaled down; the arithmetic keeps the wrap)
SizeBits == 24
\* longest run of filler bytes appended to a sample content
MaxFill == 1
\* how far a declared contentLength / maxContentLength lies from the size
MaxDelta == 1
\* largest read size the sink asks the replay source for
MaxSinkRead == 3
\* largest ceiling handed to consumeToBuffer when it is called directly
MaxCeiling == 4
\* longest source content when consumeToBuffer is called directly
MaxSrcLen == 6
\* longest content-type string enumerated character by character
MaxMimeLen == 3
\* longest acceptedMimes list when validateMime is called on its own
MaxAccepted == 2
\* how far around a boundary (buffer start, end of the sniffed prefix) the
\* markers of a ZIP buffer are placed, and how many bytes follow them
MaxPad == 2
\* largest scratch chunk when consumeToBuffer is run with a small scratch
MaxScratch == 3
\* longest buffer handed to sha256Hex
MaxShaLen == 130
\* number of byte patterns, beyond the first, the buffers are filled with
MaxSeed == 1

(***************************************************************************)
(* Program constants.                                                      *)
(***************************************************************************)
\* numeric_limits<size_t>::max()
SizeMax == 2^SizeBits - 1
\* numeric_limits<int64_t>::max(), one bit narrower than size_t
Int64Max == 2^(SizeBits - 1) - 1
\* string::npos
Npos == SizeMax
\* array<uint8_t, 64 * 1024> scratch
ScratchSize == 65536
\* min<size_t>(bytes.size(), 4096)
SniffLimit == 4096

PdfMagic == <<37, 80, 68, 70>>
PngMagic == <<137, 80, 78, 71, 13, 10, 26, 10>>
ZipMagic == <<80, 75, 3, 4>>
WordMarker == <<119, 111, 114, 100, 47>>
ContentTypesMarker ==
  <<91, 67, 111, 110, 116, 101, 110, 116, 95, 84, 121, 112, 101, 115, 93,
    46, 120, 109, 108>>

MimePdf == <<97, 112, 112, 108, 105, 99, 97, 116, 105, 111, 110, 47, 112, 100, 102>>
MimePng == <<105, 109, 97, 103, 101, 47, 112, 110, 103>>
MimeDocx ==
  <<97, 112, 112, 108, 105, 99, 97, 116, 105, 111, 110, 47, 118, 110, 100,
    46, 111, 112, 101, 110, 120, 109, 108, 102, 111, 114, 109, 97, 116, 115,
    45, 111, 102, 102, 105, 99, 101, 100, 111, 99, 117, 109, 101, 110, 116,
    46, 119, 111, 114, 100, 112, 114, 111, 99, 101, 115, 115, 105, 110, 103,
    109, 108, 46, 100, 111, 99, 117, 109, 101, 110, 116>>
MimeOctet ==
  <<97, 112, 112, 108, 105, 99, 97, 116, 105, 111, 110, 47, 111, 99, 116,
    101, 116, 45, 115, 116, 114, 101, 97, 109>>

ErrNegative == "contentLength is negative"
ErrMismatch == "contentLength mismatch"
ErrExceeds == "exceeds maxContentLength"
ErrClaimed == "claimedMime does not match detectedMime"
ErrNotAccepted == "detectedMime not accepted"
ErrCeiling == "byte source exceeds buffer ceiling"
ErrRange == "payload size exceeds supported range"
ErrIo == "io error"

Min(a, b) == IF a < b THEN a ELSE b

(***************************************************************************)
(* VectorByteSource::read and MemoryByteSource::read: the number of bytes  *)
(* a read of at most maxLen bytes copies from data at cursor offset.       *)
(***************************************************************************)
VectorRead(bytes, offset, maxLen) ==
  IF offset >= Len(bytes) \/ maxLen = 0
  THEN 0
  ELSE LET remaining == Len(bytes) - offset
       IN IF remaining < maxLen THEN remaining ELSE maxLen

\* mutant: memcpy from data_.data() without the cursor
VectorChunk_FromStart(bytes, offset, maxLen) ==
  SubSeq(bytes, 1, IF offset >= Len(bytes) \/ maxLen = 0
                   THEN 0
                   ELSE Min(Len(bytes) - offset, maxLen))

\* the bytes that read copies into the caller's buffer
VectorChunk(bytes, offset, maxLen) ==
  SubSeq(bytes, offset + 1, offset + VectorRead(bytes, offset, maxLen))

(***************************************************************************)
(* detectMime                                                              *)
(***************************************************************************)
\* equal(first, last, bytes.begin()) and the chains of bytes[i] == c
StartsWith(bytes, magic) ==
  \A i \in 1..Len(magic) : bytes[i] = magic[i]

\* string::find(needle) != npos on a std::string holding hay
Contains(hay, needle) ==
  \E i \in 1..(Len(hay) - Len(needle) + 1) :
    \A k \in 1..Len(needle) : hay[i + k - 1] = needle[k]

\* mutant: the whole buffer is searched
Signature_Whole(bytes) == bytes

\* string signature(bytes.data(), min(bytes.size(), 4096))
Signature(bytes) == SubSeq(bytes, 1, Min(Len(bytes), SniffLimit))

detectMime(bytes) ==
  IF Len(bytes) >= 4 /\ StartsWith(bytes, PdfMagic)
  THEN MimePdf
  ELSE IF Len(bytes) >= 8 /\ StartsWith(bytes, PngMagic)
  THEN MimePng
  ELSE IF /\ Len(bytes) >= 4
          /\ StartsWith(bytes, ZipMagic)
          /\ \/ Contains(Signature(bytes), WordMarker)
             \/ Contains(Signature(bytes), ContentTypesMarker)
  THEN MimeDocx
  ELSE MimeOctet

(***************************************************************************)
(* stripMime, equalsIgnoreParams, isAcceptedMime                           *)
(***************************************************************************)
\* isspace in the "C" locale: space, \t, \n, \v, \f, \r
IsSpace(ch) == ch \in {32, 9, 10, 11, 12, 13}

\* tolower in the "C" locale
ToLower(ch) == IF ch \in 65..90 THEN ch + 32 ELSE ch

\* string_view::find(ch): 0-based position of the first ch, or npos
FindChar(str, ch) ==
  IF \E i \in 1..Len(str) : str[i] = ch
  THEN (CHOOSE i \in 1..Len(str) :
          str[i] = ch /\ \A j \in 1..(i - 1) : str[j] # ch) - 1
  ELSE Npos

\* string_view::substr(0, count)
Substr0(str, count) == SubSeq(str, 1, Min(count, Len(str)))

\* base.erase(base.begin(), find_if(base.begin(), base.end(), notSpace))
TrimLeft(base) ==
  IF \E i \in 1..Len(base) : ~IsSpace(base[i])
  THEN LET first == CHOOSE i \in 1..Len(base) :
                      ~IsSpace(base[i]) /\ \A j \in 1..(i - 1) : IsSpace(base[j])
       IN SubSeq(base, first, Len(base))
  ELSE <<>>

\* base.erase(find_if(base.rbegin(), base.rend(), notSpace).base(), base.end())
TrimRight(base) ==
  IF \E i \in 1..Len(base) : ~IsSpace(base[i])
  THEN LET last == CHOOSE i \in 1..Len(base) :
                     ~IsSpace(base[i]) /\ \A j \in (i + 1)..Len(base) : IsSpace(base[j])
       IN SubSeq(base, 1, last)
  ELSE <<>>

\* transform(base.begin(), base.end(), base.begin(), tolower)
LowerAll(base) == [i \in 1..Len(base) |-> ToLower(base[i])]

\* mutant: the case is kept
stripMime_KeepCase(mime) ==
  TrimRight(TrimLeft(Substr0(mime, FindChar(mime, 59))))

stripMime(mime) ==
  LET semi == FindChar(mime, 59)
      base == Substr0(mime, semi)
  IN LowerAll(TrimRight(TrimLeft(base)))

equalsIgnoreParams(lhs, rhs) == stripMime(lhs) = stripMime(rhs)

isAcceptedMime(detected, accepted) ==
  \E i \in 1..Len(accepted) : equalsIgnoreParams(detected, accepted[i])

(***************************************************************************)
(* validateLengths, validateMime: the error list after the call            *)
(***************************************************************************)
\* mutant: "if" in place of "else if", so a negative length is also compared
validateLengths_NoElse(m, size, maxContentLength, errors) ==
  LET e1 == IF m.hasContentLength /\ m.contentLength < 0
            THEN Append(errors, ErrNegative)
            ELSE errors
      e2 == IF m.hasContentLength /\ size # m.contentLength
            THEN Append(e1, ErrMismatch)
            ELSE e1
  IN IF maxContentLength >= 0 /\ size > maxContentLength
     THEN Append(e2, ErrExceeds)
     ELSE e2

\* mutant: the maximum is only enforced when a length was declared
validateLengths_MaxNeedsDeclared(m, size, maxContentLength, errors) ==
  IF m.hasContentLength
  THEN LET e1 == IF m.contentLength < 0
                 THEN Append(errors, ErrNegative)
                 ELSE IF size # m.contentLength
                      THEN Append(errors, ErrMismatch)
                      ELSE errors
       IN IF maxContentLength >= 0 /\ size > maxContentLength
          THEN Append(e1, ErrExceeds)
          ELSE e1
  ELSE errors

validateLengths(m, size, maxContentLength, errors) ==
  LET e1 == IF m.hasContentLength
            THEN IF m.contentLength < 0
                 THEN Append(errors, ErrNegative)
                 ELSE IF size # m.contentLength
                      THEN Append(errors, ErrMismatch)
                      ELSE errors
            ELSE errors
  IN IF maxContentLength >= 0 /\ size > maxContentLength
     THEN Append(e1, ErrExceeds)
     ELSE e1

\* mutant: the accepted-list rule is evaluated before the claimed-type rule
validateMime_Swapped(m, detected, accepted, errors) ==
  LET e1 == IF accepted # <<>> /\ ~isAcceptedMime(detected, accepted)
            THEN Append(errors, ErrNotAccepted)
            ELSE errors
  IN IF m.claimedMime # <<>> /\ ~equalsIgnoreParams(m.claimedMime, detected)
     THEN Append(e1, ErrClaimed)
     ELSE e1

validateMime(m, detected, accepted, errors) ==
  LET e1 == IF m.claimedMime # <<>> /\ ~equalsIgnoreParams(m.claimedMime, detected)
            THEN Append(errors, ErrClaimed)
            ELSE errors
  IN IF accepted # <<>> /\ ~isAcceptedMime(detected, accepted)
     THEN Append(e1, ErrNotAccepted)
     ELSE e1

(***************************************************************************)
(* State                                                                   *)
(***************************************************************************)
VARIABLES
  pc,            \* position of the call: idle, drain, sink, returned, threw
  caller,        \* who runs consumeToBuffer: "ingest" or "direct"
  srcData,       \* the bytes the original ByteSource yields before EOF
  srcOff,        \* how many of them it has yielded
  srcReads,      \* number of read calls made on the original source
  srcFailed,     \* a read on the original source threw
  maxBytes,      \* consumeToBuffer: maxBytes
  scratchLen,    \* consumeToBuffer: scratch.size()
  data,          \* consumeToBuffer: data
  total,         \* consumeToBuffer: total
  buffer,        \* what consumeToBuffer returned: None or Some(bytes)
  meta,          \* ingest: meta
  cfg,           \* ingest: cfg
  sniffed,       \* the bytes detectMime and sha256Hex were given
  persistCalls,  \* number of sink.persist calls
  lastResult,    \* RecordingSink::lastResult: None or Some(IngestResult)
  replayOff,     \* VectorByteSource replay: offset_
  forwarded,     \* RecordingSink::forwarded
  forwardedBytes,\* RecordingSink::forwardedBytes
  err,           \* what() of the exception that left the call, or ""
  fnArgs,        \* arguments of a function called on its own
  fnRet          \* what it returned: None or Some(value)

vars == <<pc, caller, srcData, srcOff, srcReads, srcFailed, maxBytes, scratchLen, data, total,
          buffer, meta, cfg, sniffed, persistCalls, lastResult,
          replayOff, forwarded, forwardedBytes, err, fnArgs, fnRet>>

consumeVars == <<srcOff, srcReads, srcFailed, data, total, buffer>>
fnVars == <<fnArgs, fnRet>>
ingestVars == <<meta, cfg, sniffed, persistCalls, lastResult, replayOff,
                forwarded, forwardedBytes>>

None == <<>>
Some(x) == <<x>>
Get(opt) == opt[1]

NoMeta == [claimedMime |-> <<>>, hasContentLength |-> FALSE, contentLength |-> 0]
NoCfg == [maxContentLength |-> -1, acceptedMimes |-> <<>>]

InitCall ==
  /\ pc = "idle"
  /\ caller = "none"
  /\ srcData = <<>>
  /\ srcOff = 0
  /\ srcReads = 0
  /\ srcFailed = FALSE
  /\ maxBytes = 0
  /\ scratchLen = 0
  /\ data = <<>>
  /\ total = 0
  /\ buffer = None
  /\ meta = NoMeta
  /\ cfg = NoCfg
  /\ sniffed = None
  /\ persistCalls = 0
  /\ lastResult = None
  /\ replayOff = 0
  /\ forwarded = <<>>
  /\ forwardedBytes = 0
  /\ err = ""

Init ==
  /\ InitCall
  /\ fnArgs = None
  /\ fnRet = None

(***************************************************************************)
(* Inputs                                                                  *)
(***************************************************************************)
\* k filler bytes, all different, so that order and position show
Fill(k) == [i \in 1..k |-> i]

Headers ==
  { <<>>, <<37, 80, 68>>, PdfMagic, PngMagic, ZipMagic, ZipMagic \o WordMarker }

Contents == { h \o Fill(k) : h \in Headers, k \in 0..MaxFill }

ToUpper(ch) == IF ch \in 97..122 THEN ch - 32 ELSE ch

\* " TYPE/SUBTYPE ;q": the same type in another case, padded, with a parameter
Decorated(mime) ==
  <<32>> \o [i \in 1..Len(mime) |-> ToUpper(mime[i])] \o <<32, 59, 113>>

ClaimedMimes == { <<>>, MimePng, Decorated(MimePdf) }

AcceptedLists ==
  { <<>>, <<Decorated(MimePdf), MimeDocx>> }

\* lengths around the size n, and a negative one
LengthsNear(n) == {-1} \cup { n + d : d \in (0 - MaxDelta)..MaxDelta }

Metas(n) ==
  { [claimedMime |-> c, hasContentLength |-> FALSE, contentLength |-> 0] :
      c \in ClaimedMimes }
  \cup
  { [claimedMime |-> c, hasContentLength |-> TRUE, contentLength |-> l] :
      c \in ClaimedMimes, l \in LengthsNear(n) }

Cfgs(n) ==
  { [maxContentLength |-> l, acceptedMimes |-> a] :
      l \in LengthsNear(n), a \in AcceptedLists }

(***************************************************************************)
(* consumeToBuffer                                                         *)
(***************************************************************************)
\* total += readCount on a size_t
AddSize(a, b) == (a + b) % (2^SizeBits)

\* the ingest call: ingest hands the source to consumeToBuffer with the
\* ceiling numeric_limits<size_t>::max()
ingestCall ==
  /\ pc = "idle"
  /\ \E content \in Contents :
       \E m \in Metas(Len(content)), c \in Cfgs(Len(content)) :
         /\ srcData' = content
         /\ meta' = m
         /\ cfg' = c
  /\ caller' = "ingest"
  /\ maxBytes' = SizeMax
  /\ scratchLen' = ScratchSize
  /\ pc' = "drain"
  /\ UNCHANGED <<consumeVars, sniffed, persistCalls, lastResult, replayOff,
                 forwarded, forwardedBytes, err, fnVars>>

\* consumeToBuffer called on its own, with any ceiling
consumeToBufferCall ==
  /\ pc = "idle"
  /\ \E k \in 0..MaxSrcLen, ceiling \in 0..MaxCeiling :
       /\ srcData' = Fill(k)
       /\ maxBytes' = ceiling
  /\ scratchLen' = ScratchSize
  /\ caller' = "direct"
  /\ pc' = "drain"
  /\ UNCHANGED <<consumeVars, ingestVars, err, fnVars>>

\* consumeToBuffer run with a scratch chunk of any size >= 1, and no
\* ceiling in the way
consumeToBufferChunkCall ==
  /\ pc = "idle"
  /\ \E k \in 0..MaxSrcLen, size \in 1..MaxScratch :
       /\ srcData' = Fill(k)
       /\ scratchLen' = size
  /\ maxBytes' = SizeMax
  /\ caller' = "chunked"
  /\ pc' = "drain"
  /\ UNCHANGED <<consumeVars, ingestVars, err, fnVars>>

\* mutant: a read that does not fill the scratch chunk is taken for the last
consumeRead_ShortReadEnds ==
  /\ pc = "drain"
  /\ srcOff < Len(srcData)
  /\ \E n \in 1..Min(scratchLen, Len(srcData) - srcOff) :
       /\ srcOff' = srcOff + n
       /\ srcReads' = srcReads + 1
       /\ total' = AddSize(total, n)
       /\ IF AddSize(total, n) > maxBytes
          THEN /\ pc' = "threw"
               /\ err' = ErrCeiling
               /\ data' = data
               /\ buffer' = buffer
          ELSE /\ err' = err
               /\ data' = data \o SubSeq(srcData, srcOff + 1, srcOff + n)
               /\ IF n < scratchLen
                  THEN /\ buffer' = Some(data \o SubSeq(srcData, srcOff + 1, srcOff + n))
                       /\ pc' = IF caller = "ingest" THEN "drained" ELSE "returned"
                  ELSE /\ buffer' = buffer
                       /\ pc' = "drain"
  /\ UNCHANGED <<caller, srcData, srcFailed, maxBytes, scratchLen, ingestVars, fnVars>>

\* mutant: the chunk is appended before the total is compared to the ceiling
consumeRead_AppendFirst ==
  /\ pc = "drain"
  /\ srcOff < Len(srcData)
  /\ \E n \in 1..Min(scratchLen, Len(srcData) - srcOff) :
       /\ srcOff' = srcOff + n
       /\ srcReads' = srcReads + 1
       /\ total' = AddSize(total, n)
       /\ data' = data \o SubSeq(srcData, srcOff + 1, srcOff + n)
       /\ IF AddSize(total, n) > maxBytes
          THEN pc' = "threw" /\ err' = ErrCeiling
          ELSE pc' = "drain" /\ err' = err
  /\ UNCHANGED <<caller, srcData, srcFailed, maxBytes, scratchLen, buffer, ingestVars, fnVars>>

\* one pass of the loop whose read yields readCount > 0 bytes: a ByteSource
\* may return any count in 1..maxLen that it still has
consumeRead ==
  /\ pc = "drain"
  /\ srcOff < Len(srcData)
  /\ \E n \in 1..Min(scratchLen, Len(srcData) - srcOff) :
       /\ srcOff' = srcOff + n
       /\ srcReads' = srcReads + 1
       /\ total' = AddSize(total, n)
       /\ IF AddSize(total, n) > maxBytes
          THEN /\ pc' = "threw"
               /\ err' = ErrCeiling
               /\ data' = data
          ELSE /\ pc' = "drain"
               /\ err' = err
               /\ data' = data \o SubSeq(srcData, srcOff + 1, srcOff + n)
  /\ UNCHANGED <<caller, srcData, srcFailed, maxBytes, scratchLen, buffer, ingestVars, fnVars>>

\* mutant: the exception of read is caught and taken for end-of-stream
consumeReadFails_AsEof ==
  /\ pc = "drain"
  /\ srcReads' = srcReads + 1
  /\ srcFailed' = TRUE
  /\ buffer' = Some(data)
  /\ pc' = IF caller = "ingest" THEN "drained" ELSE "returned"
  /\ UNCHANGED <<caller, srcData, srcOff, maxBytes, scratchLen, data, total, ingestVars,
                 err, fnVars>>

\* a read that throws: the exception leaves consumeToBuffer and its caller
consumeReadFails ==
  /\ pc = "drain"
  /\ srcReads' = srcReads + 1
  /\ srcFailed' = TRUE
  /\ pc' = "threw"
  /\ err' = ErrIo
  /\ UNCHANGED <<caller, srcData, srcOff, maxBytes, scratchLen, data, total, buffer,
                 ingestVars, fnVars>>

\* the read that returns 0: break, return data
consumeEof ==
  /\ pc = "drain"
  /\ srcOff = Len(srcData)
  /\ srcReads' = srcReads + 1
  /\ buffer' = Some(data)
  /\ pc' = IF caller = "ingest" THEN "drained" ELSE "returned"
  /\ UNCHANGED <<caller, srcData, srcOff, srcFailed, maxBytes, scratchLen, data, total,
                 ingestVars, err, fnVars>>

(***************************************************************************)
(* ingest, after consumeToBuffer returned                                  *)
(***************************************************************************)
\* mutant: ok is taken from the list before validateMime has run
ingestResult_OkBeforeMime(m, c, bytes) ==
  LET size == Len(bytes)
      detected == detectMime(bytes)
      lengthErrors == validateLengths(m, size, c.maxContentLength, <<>>)
      errors == validateMime(m, detected, c.acceptedMimes, lengthErrors)
  IN [detectedMime |-> detected,
      size |-> size,
      errors |-> errors,
      ok |-> (lengthErrors = <<>>)]

\* the IngestResult ingest builds from the buffer; its sha256 field is
\* sha256Hex(bytes), which SpecSha runs on its own
ingestResult(m, c, bytes) ==
  LET size == Len(bytes)
      detected == detectMime(bytes)
      errors == validateMime(m, detected, c.acceptedMimes,
                  validateLengths(m, size, c.maxContentLength, <<>>))
  IN [detectedMime |-> detected,
      size |-> size,
      errors |-> errors,
      ok |-> (errors = <<>>)]

\* mutant: the sink is only called for an upload that passed validation
ingestPersist_OnlyWhenOk ==
  /\ pc = "drained"
  /\ IF ingestResult(meta, cfg, Get(buffer)).ok
     THEN /\ sniffed' = Some(Get(buffer))
          /\ persistCalls' = persistCalls + 1
          /\ lastResult' = Some(ingestResult(meta, cfg, Get(buffer)))
          /\ replayOff' = 0
          /\ forwarded' = <<>>
          /\ forwardedBytes' = 0
          /\ pc' = "sink"
     ELSE /\ pc' = "returned"
          /\ UNCHANGED <<sniffed, persistCalls, lastResult, replayOff,
                         forwarded, forwardedBytes>>
  /\ UNCHANGED <<caller, srcData, maxBytes, scratchLen, consumeVars, meta, cfg, err, fnVars>>

\* range check, result, replay source, sink.persist: RecordingSink::persist
\* starts by recording meta and result and clearing what it forwarded
ingestPersist ==
  /\ pc = "drained"
  /\ IF Len(Get(buffer)) > Int64Max
     THEN /\ pc' = "threw"
          /\ err' = ErrRange
          /\ UNCHANGED <<sniffed, persistCalls, lastResult, replayOff,
                         forwarded, forwardedBytes>>
     ELSE /\ sniffed' = Some(Get(buffer))
          /\ persistCalls' = persistCalls + 1
          /\ lastResult' = Some(ingestResult(meta, cfg, Get(buffer)))
          /\ replayOff' = 0
          /\ forwarded' = <<>>
          /\ forwardedBytes' = 0
          /\ pc' = "sink"
          /\ err' = err
  /\ UNCHANGED <<caller, srcData, maxBytes, scratchLen, consumeVars, meta, cfg, fnVars>>

\* RecordingSink::persist, one pass of its loop with n > 0: the sink may ask
\* for any number of bytes >= 1
sinkRead ==
  /\ pc = "sink"
  /\ \E maxLen \in 1..MaxSinkRead :
       LET n == VectorRead(Get(buffer), replayOff, maxLen)
       IN /\ n > 0
          /\ forwarded' = forwarded \o VectorChunk(Get(buffer), replayOff, maxLen)
          /\ forwardedBytes' = forwardedBytes + n
          /\ replayOff' = replayOff + n
  /\ UNCHANGED <<pc, caller, srcData, maxBytes, scratchLen, consumeVars, meta, cfg,
                 sniffed, persistCalls, lastResult, err, fnVars>>

\* the read that returns 0: persist returns, and ingest with it
sinkEof ==
  /\ pc = "sink"
  /\ \E maxLen \in 1..MaxSinkRead :
       VectorRead(Get(buffer), replayOff, maxLen) = 0
  /\ pc' = "returned"
  /\ UNCHANGED <<caller, srcData, maxBytes, scratchLen, consumeVars, ingestVars, err, fnVars>>

Next ==
  \/ ingestCall
  \/ consumeRead
  \/ consumeReadFails
  \/ consumeEof
  \/ ingestPersist
  \/ sinkRead
  \/ sinkEof

Spec == Init /\ [][Next]_vars

(***************************************************************************)
(* Properties of ingest, checked under Spec                                *)
(***************************************************************************)
Range(seq) == { seq[i] : i \in 1..Len(seq) }

\* the ingest call is over
Ended == pc \in {"returned", "threw"}

\* the source reached end-of-stream: its zero-length read was returned
ReachedEof == buffer # None

\* C1: an ingest call whose source reaches end-of-stream without a read
\* failure invokes sink.persist exactly once, whether result.ok or not:
\* persist is never called twice, it has been called once as soon as the
\* drain is over and validated, and a call that ended after end-of-stream
\* has called it exactly once.
C1_PersistExactlyOnce ==
  /\ persistCalls <= 1
  /\ (caller = "ingest" /\ pc \in {"sink", "returned"}) => persistCalls = 1
  /\ (caller = "ingest" /\ Ended /\ ReachedEof) =>
        /\ pc = "returned"
        /\ persistCalls = 1
        /\ lastResult # None

\* C1 witness: a finished call that failed validation and persisted once
C1_Witness ==
  /\ caller = "ingest"
  /\ pc = "returned"
  /\ persistCalls = 1
  /\ ~Get(lastResult).ok

\* C2: result.size is the number of bytes the source yielded, and a sink
\* draining the replay source with reads of any size >= 1 gets exactly
\* these bytes, in order, from offset zero, the same bytes that were
\* sniffed and digested, also when validation failed.
C2_SizeAndReplay ==
  (caller = "ingest" /\ lastResult # None) =>
    /\ Get(lastResult).size = Len(srcData)
    /\ Get(sniffed) = srcData
    /\ forwardedBytes = Len(forwarded)
    /\ forwarded = SubSeq(Get(sniffed), 1, forwardedBytes)
    /\ pc = "returned" =>
         /\ forwarded = srcData
         /\ forwardedBytes = Get(lastResult).size

\* C2 witness: a drained replay of a non-empty upload that failed validation,
\* read by the sink in more than one piece
C2_Witness ==
  /\ caller = "ingest"
  /\ pc = "returned"
  /\ ~Get(lastResult).ok
  /\ Len(forwarded) > MaxSinkRead

C4_OkIffNoErrors ==
  /\ [](lastResult # None =>
          (Get(lastResult).ok <=> Get(lastResult).errors = <<>>))
  /\ [][lastResult # None => lastResult' = lastResult]_vars

\* C4 witness: a result whose only violation is a content-type one
C4_Witness ==
  /\ lastResult # None
  /\ ~Get(lastResult).ok
  /\ Range(Get(lastResult).errors) \subseteq {ErrClaimed, ErrNotAccepted}

\* C6: "exceeds maxContentLength" is reported exactly when maxContentLength
\* is non-negative and the measured size is greater, declared length or
\* not; the upload is then still measured in full and forwarded in full.
C6_ExceedsMax ==
  (caller = "ingest" /\ lastResult # None) =>
    /\ (ErrExceeds \in Range(Get(lastResult).errors)) <=>
         (cfg.maxContentLength >= 0 /\ Len(srcData) > cfg.maxContentLength)
    /\ (pc = "returned" /\ ErrExceeds \in Range(Get(lastResult).errors)) =>
         /\ Get(lastResult).size = Len(srcData)
         /\ Len(forwarded) > cfg.maxContentLength
         /\ forwarded = srcData

\* C6 witness: no declared length, upload one byte over the limit, forwarded
C6_Witness ==
  /\ caller = "ingest"
  /\ pc = "returned"
  /\ ~meta.hasContentLength
  /\ cfg.maxContentLength >= 0
  /\ Len(srcData) = cfg.maxContentLength + 1
  /\ ErrExceeds \in Range(Get(lastResult).errors)

\* C7: the declared-length rule gives at most one violation: none without
\* a declared length; only "contentLength is negative" for a negative one;
\* for a non-negative one "contentLength mismatch" exactly when it differs
\* from the measured size, and never "contentLength is negative".
C7_DeclaredLength ==
  (caller = "ingest" /\ lastResult # None) =>
    LET errors == Get(lastResult).errors
        neg == ErrNegative \in Range(errors)
        mis == ErrMismatch \in Range(errors)
    IN /\ ~(neg /\ mis)
       /\ Cardinality({ i \in 1..Len(errors) :
                          errors[i] \in {ErrNegative, ErrMismatch} }) <= 1
       /\ ~meta.hasContentLength => (~neg /\ ~mis)
       /\ (meta.hasContentLength /\ meta.contentLength < 0) => (neg /\ ~mis)
       /\ (meta.hasContentLength /\ meta.contentLength >= 0) =>
            /\ ~neg
            /\ mis <=> (meta.contentLength # Len(srcData))

\* C7 witness: a declared length one byte above the size gives the mismatch
C7_Witness ==
  /\ caller = "ingest"
  /\ lastResult # None
  /\ meta.hasContentLength
  /\ meta.contentLength = Len(srcData) + 1
  /\ ErrMismatch \in Range(Get(lastResult).errors)

\* the violation of each rule for the call in progress, <<>> when it holds
Rule1 ==
  IF meta.hasContentLength /\ meta.contentLength < 0 THEN <<ErrNegative>>
  ELSE IF meta.hasContentLength /\ meta.contentLength # Len(srcData)
  THEN <<ErrMismatch>>
  ELSE <<>>
Rule2 ==
  IF cfg.maxContentLength >= 0 /\ Len(srcData) > cfg.maxContentLength
  THEN <<ErrExceeds>> ELSE <<>>
Rule3 ==
  IF /\ meta.claimedMime # <<>>
     /\ stripMime(meta.claimedMime) # Get(lastResult).detectedMime
  THEN <<ErrClaimed>> ELSE <<>>
Rule4 ==
  IF /\ cfg.acceptedMimes # <<>>
     /\ \A i \in 1..Len(cfg.acceptedMimes) :
          stripMime(cfg.acceptedMimes[i]) # Get(lastResult).detectedMime
  THEN <<ErrNotAccepted>> ELSE <<>>

\* C10: result.errors is the list of the violations of the rules that
\* fired, in the order length, maximum, claimed type, accepted type; every
\* rule is evaluated whatever the earlier ones gave; no message is there
\* twice and there are at most four.
C10_ErrorOrder ==
  (caller = "ingest" /\ lastResult # None) =>
    LET errors == Get(lastResult).errors
    IN /\ errors = Rule1 \o Rule2 \o Rule3 \o Rule4
       /\ Len(errors) <= 4
       /\ Cardinality(Range(errors)) = Len(errors)

\* C10 witness: all four rules fired
C10_Witness ==
  /\ lastResult # None
  /\ Len(Get(lastResult).errors) = 4

(***************************************************************************)
(* consumeToBuffer on its own                                              *)
(***************************************************************************)
NextConsume ==
  \/ consumeToBufferCall
  \/ consumeRead
  \/ consumeReadFails
  \/ consumeEof

SpecConsume == Init /\ [][NextConsume]_vars

\* C5: consumeToBuffer enforces the ceiling as it drains: data never holds
\* more than maxBytes bytes; the call throws at the first read that takes
\* the total above maxBytes, without appending that chunk, without reading
\* the source again and without returning a buffer; a source of at most
\* maxBytes bytes is never refused and is returned whole.
C5_IncrementalCeiling ==
  /\ [](caller = "direct" =>
          /\ Len(data) <= maxBytes
          /\ data = SubSeq(srcData, 1, Len(data))
          /\ pc = "drain" => (total = Len(data) /\ srcOff = total)
          /\ (total > maxBytes) <=> (err = ErrCeiling)
          /\ err = ErrCeiling =>
               /\ pc = "threw"
               /\ srcOff = total
               /\ Len(data) < total
               /\ buffer = None
          /\ Len(srcData) <= maxBytes => err # ErrCeiling
          /\ pc = "returned" =>
               (Len(srcData) <= maxBytes /\ buffer = Some(srcData)))
  /\ [][(caller = "direct" /\ pc = "threw") =>
          (srcReads' = srcReads /\ srcOff' = srcOff /\ buffer' = buffer)]_vars

\* C5 witness: the ceiling was exceeded while the source still had bytes,
\* after an earlier chunk had been accepted
C5_Witness ==
  /\ caller = "direct"
  /\ err = ErrCeiling
  /\ data # <<>>
  /\ srcOff < Len(srcData)

(***************************************************************************)
(* validateMime on its own                                                 *)
(***************************************************************************)
\* the types detectMime can return
DetectedMimes == {MimePdf, MimePng, MimeDocx, MimeOctet}

\* every string of at most n characters over alphabet
RECURSIVE StringsUpTo(_, _)
StringsUpTo(alphabet, n) ==
  IF n = 0
  THEN { <<>> }
  ELSE LET shorter == StringsUpTo(alphabet, n - 1)
       IN shorter \cup { Append(str, ch) : str \in shorter, ch \in alphabet }

\* 'a', 'A', ' ', ';'
MimeAlphabet == {97, 65, 32, 59}

\* a type written the ways a client may write it: other case, surrounding
\* white space, parameters
Spellings(mime) ==
  { pre \o body \o post :
      pre \in { <<>>, <<32>>, <<9, 32>> },
      body \in { mime, [i \in 1..Len(mime) |-> ToUpper(mime[i])] },
      post \in { <<>>, <<32>>, <<59>>, <<32, 59, 113, 61, 49>>, <<13, 10>> } }

\* strings that are close to a type and are not it
Misspellings(mime) ==
  { <<59>> \o mime,
    mime \o <<120>>,
    SubSeq(mime, 1, Len(mime) - 1),
    SubSeq(mime, 1, 5) \o <<32>> \o SubSeq(mime, 6, Len(mime)),
    <<120, 59>> \o mime }

MimeStrings ==
  StringsUpTo(MimeAlphabet, MaxMimeLen)
  \cup UNION { Spellings(mime) \cup Misspellings(mime) : mime \in DetectedMimes }

AcceptedEntries == { MimePdf, Decorated(MimePng), <<32, 59>> \o MimeOctet }

RECURSIVE ListsUpTo(_, _)
ListsUpTo(entries, n) ==
  IF n = 0
  THEN { <<>> }
  ELSE LET shorter == ListsUpTo(entries, n - 1)
       IN shorter \cup { Append(list, x) : list \in shorter, x \in entries }

InitMime ==
  /\ InitCall
  /\ fnArgs \in { [claimedMime |-> c, detected |-> d, accepted |-> a] :
                    c \in MimeStrings, d \in DetectedMimes,
                    a \in ListsUpTo(AcceptedEntries, MaxAccepted) }
  /\ fnRet = None

validateMimeCall ==
  /\ fnRet = None
  /\ fnRet' = Some(validateMime(
                 [claimedMime |-> fnArgs.claimedMime,
                  hasContentLength |-> FALSE,
                  contentLength |-> 0],
                 fnArgs.detected, fnArgs.accepted, <<>>))
  /\ UNCHANGED <<pc, caller, srcData, maxBytes, scratchLen, consumeVars, ingestVars, err,
                 fnArgs>>

NextMime == validateMimeCall

SpecMime == InitMime /\ [][NextMime]_vars

\* norm is what is left of str once everything from its first ';' is
\* dropped, the white space around the rest is removed and the upper-case
\* letters are folded
NormalisesTo(str, norm) ==
  \E cut \in 0..Len(str) :
    /\ \A i \in 1..cut : str[i] # 59
    /\ cut < Len(str) => str[cut + 1] = 59
    /\ \E lead \in 0..(cut - Len(norm)) :
         /\ \A i \in 1..lead : str[i] \in {32, 9, 10, 11, 12, 13}
         /\ \A i \in (lead + Len(norm) + 1)..cut : str[i] \in {32, 9, 10, 11, 12, 13}
         /\ norm # <<>> =>
              /\ str[lead + 1] \notin {32, 9, 10, 11, 12, 13}
              /\ str[lead + Len(norm)] \notin {32, 9, 10, 11, 12, 13}
         /\ \A i \in 1..Len(norm) :
              norm[i] = IF str[lead + i] \in 65..90
                        THEN str[lead + i] + 32
                        ELSE str[lead + i]

\* C8: the two content-type rules are decided independently under the
\* comparator that drops the parameters, trims and lower-cases: the claimed
\* violation is there exactly when claimedMime is non-empty and does not
\* normalise to the detected type; the accepted violation exactly when
\* acceptedMimes is non-empty and no entry normalises to the detected type;
\* the claimed violation, when there, comes first.
C8_MimeRules ==
  fnRet # None =>
    LET errors == Get(fnRet)
        claimedFails ==
          /\ fnArgs.claimedMime # <<>>
          /\ ~NormalisesTo(fnArgs.claimedMime, fnArgs.detected)
        acceptedFails ==
          /\ fnArgs.accepted # <<>>
          /\ \A i \in 1..Len(fnArgs.accepted) :
               ~NormalisesTo(fnArgs.accepted[i], fnArgs.detected)
    IN /\ (ErrClaimed \in Range(errors)) <=> claimedFails
       /\ (ErrNotAccepted \in Range(errors)) <=> acceptedFails
       /\ errors = (IF claimedFails THEN <<ErrClaimed>> ELSE <<>>)
                   \o (IF acceptedFails THEN <<ErrNotAccepted>> ELSE <<>>)

\* C8 witness: "image/png" claimed for a PDF, with PDF among the accepted
\* types: the claimed violation alone
C8_Witness ==
  /\ fnRet # None
  /\ fnArgs.claimedMime = MimePng
  /\ fnArgs.detected = MimePdf
  /\ MimePdf \in Range(fnArgs.accepted)
  /\ Get(fnRet) = <<ErrClaimed>>

(***************************************************************************)
(* detectMime on its own                                                   *)
(***************************************************************************)
Zeros(n) == [i \in 1..n |-> 0]

\* every prefix of magic, and magic with one byte replaced
NearMagic(magic) ==
  { SubSeq(magic, 1, n) : n \in 0..Len(magic) }
  \cup { [magic EXCEPT ![i] = 0] : i \in 1..Len(magic) }

\* what the ZIP scan looks for, whole and cut short
Markers ==
  { WordMarker, ContentTypesMarker, SubSeq(WordMarker, 1, 4),
    SubSeq(ContentTypesMarker, 1, 18) }

\* where a marker of length n may start (0-based): near the magic, and
\* where it ends around the end of the sniffed prefix
MarkerStarts(n) ==
  { 4 + d : d \in 0..MaxPad }
  \cup { SniffLimit - n + d : d \in (0 - MaxPad)..MaxPad }
  \cup { SniffLimit - d : d \in 0..MaxPad }

DetectInputs ==
  \* short buffers and near misses of each signature, alone and followed
  \* by text that holds a marker
  { head \o tail :
      head \in NearMagic(PdfMagic) \cup NearMagic(PngMagic) \cup NearMagic(ZipMagic),
      tail \in { <<>>, WordMarker, Zeros(4) \o ContentTypesMarker } }
  \cup
  \* ZIP buffers with one marker somewhere, zero bytes around it
  { ZipMagic \o Zeros(start - 4) \o marker \o Zeros(after) :
      marker \in Markers, start \in MarkerStarts(5) \cup MarkerStarts(19),
      after \in {0, MaxPad} }

InitDetect ==
  /\ InitCall
  /\ fnArgs \in DetectInputs
  /\ fnRet = None

detectMimeCall ==
  /\ fnRet = None
  /\ fnRet' = Some(detectMime(fnArgs))
  /\ UNCHANGED <<pc, caller, srcData, maxBytes, scratchLen, consumeVars, ingestVars, err,
                 fnArgs>>

NextDetect == detectMimeCall

SpecDetect == InitDetect /\ [][NextDetect]_vars

\* bytes begins with magic
HasPrefix(bytes, magic) ==
  Len(bytes) >= Len(magic) /\ SubSeq(bytes, 1, Len(magic)) = magic

\* marker occurs wholly within the first min(4096, length) bytes
OccursInPrefix(bytes, marker) ==
  LET limit == IF Len(bytes) < 4096 THEN Len(bytes) ELSE 4096
  IN \E first \in 1..limit :
       /\ first + Len(marker) - 1 <= limit
       /\ SubSeq(bytes, first, first + Len(marker) - 1) = marker

\* C9: detectMime is total and follows the signature table, first match
\* first: "%PDF" gives PDF; else the PNG magic gives PNG; else the ZIP
\* magic gives the Office type exactly when "word/" or
\* "[Content_Types].xml" lies wholly within the first min(4096, length)
\* bytes; everything else gives application/octet-stream.
C9_SignatureTable ==
  fnRet # None =>
    Get(fnRet) =
      IF HasPrefix(fnArgs, <<37, 80, 68, 70>>) THEN MimePdf
      ELSE IF HasPrefix(fnArgs, <<137, 80, 78, 71, 13, 10, 26, 10>>) THEN MimePng
      ELSE IF /\ HasPrefix(fnArgs, <<80, 75, 3, 4>>)
              /\ \/ OccursInPrefix(fnArgs, WordMarker)
                 \/ OccursInPrefix(fnArgs, ContentTypesMarker)
           THEN MimeDocx
      ELSE MimeOctet

\* C9 witness: a ZIP buffer whose "word/" straddles the end of the sniffed
\* prefix is not an Office document
C9_Witness ==
  /\ fnRet # None
  /\ Len(fnArgs) >= SniffLimit + 3
  /\ HasPrefix(fnArgs, ZipMagic)
  /\ SubSeq(fnArgs, SniffLimit - 1, SniffLimit + 3) = WordMarker
  /\ Get(fnRet) = MimeOctet

(***************************************************************************)
(* consumeToBuffer with a small scratch chunk                              *)
(***************************************************************************)
NextChunk ==
  \/ consumeToBufferChunkCall
  \/ consumeRead
  \/ consumeReadFails
  \/ consumeEof

SpecChunk == Init /\ [][NextChunk]_vars

\* C11: what consumeToBuffer returns does not depend on the chunking: however
\* the source splits its bytes into reads of 1..maxLen bytes, and whatever
\* the scratch chunk size >= 1, data is at every moment the chunks read so
\* far in order, the drain ends at the first zero-length read and reads no
\* more, and the buffer returned is the whole sequence, of the exact size.
C11_ChunkIndependent ==
  /\ [](caller = "chunked" =>
          /\ srcOff <= srcReads * scratchLen
          /\ pc = "drain" => data = SubSeq(srcData, 1, srcOff)
          /\ buffer # None <=> pc = "returned"
          /\ pc = "returned" =>
               /\ srcOff = Len(srcData)
               /\ Get(buffer) = srcData
               /\ Len(Get(buffer)) = Len(srcData)
               /\ srcReads >= 1
               /\ srcReads - 1 <= Len(srcData)
               /\ (srcReads - 1) * scratchLen >= Len(srcData))
  /\ [][(caller = "chunked" /\ pc = "returned") =>
          (srcReads' = srcReads /\ srcOff' = srcOff /\ buffer' = buffer)]_vars

\* C11 witness: a drain through a scratch chunk smaller than the content,
\* with reads that did not all fill it and were not all of one byte
C11_Witness ==
  /\ caller = "chunked"
  /\ pc = "returned"
  /\ scratchLen > 1
  /\ Len(srcData) > scratchLen
  /\ srcReads - 1 < Len(srcData)
  /\ (srcReads - 2) * scratchLen >= Len(srcData)

(***************************************************************************)
(* SHA-256.  A uint32_t is the pair <<high 16 bits, low 16 bits>>.         *)
(***************************************************************************)
\* a ^ b and a & b on 4-bit digits
XorDigit ==
  [a \in 0..15 |-> [b \in 0..15 |->
     ((a + b) % 2)
     + 2 * (((a \div 2) + (b \div 2)) % 2)
     + 4 * (((a \div 4) + (b \div 4)) % 2)
     + 8 * (((a \div 8) + (b \div 8)) % 2)]]
AndDigit ==
  [a \in 0..15 |-> [b \in 0..15 |->
     ((a % 2) * (b % 2))
     + 2 * (((a \div 2) % 2) * ((b \div 2) % 2))
     + 4 * (((a \div 4) % 2) * ((b \div 4) % 2))
     + 8 * ((a \div 8) * (b \div 8))]]

\* a digit-wise operation on two 16-bit halves
Half(table, a, b) ==
  table[a % 16][b % 16]
  + 16 * table[(a \div 16) % 16][(b \div 16) % 16]
  + 256 * table[(a \div 256) % 16][(b \div 256) % 16]
  + 4096 * table[a \div 4096][b \div 4096]

\* ^, &, ~, + (mod 2^32) and >> on uint32_t
Xor(x, y) == <<Half(XorDigit, x[1], y[1]), Half(XorDigit, x[2], y[2])>>
And(x, y) == <<Half(AndDigit, x[1], y[1]), Half(AndDigit, x[2], y[2])>>
Not(x) == <<65535 - x[1], 65535 - x[2]>>
Add(x, y) ==
  <<(x[1] + y[1] + ((x[2] + y[2]) \div 65536)) % 65536, (x[2] + y[2]) % 65536>>
Shr(x, bits) ==
  IF bits >= 16
  THEN <<0, x[1] \div 2^(bits - 16)>>
  ELSE <<x[1] \div 2^bits,
         (x[2] \div 2^bits) + (x[1] % 2^bits) * 2^(16 - bits)>>

\* (value >> bits) | (value << (32 - bits)), 0 < bits < 32
rotr(value, bits) ==
  IF bits >= 16
  THEN LET k == bits - 16
       IN <<(value[2] \div 2^k) + (value[1] % 2^k) * 2^(16 - k),
            (value[1] \div 2^k) + (value[2] % 2^k) * 2^(16 - k)>>
  ELSE <<(value[1] \div 2^bits) + (value[2] % 2^bits) * 2^(16 - bits),
         (value[2] \div 2^bits) + (value[1] % 2^bits) * 2^(16 - bits)>>

kSha256K ==
  <<
    <<17034, 12184>>, <<28983, 17553>>, <<46528, 64463>>, <<59829, 56229>>,
    <<14678, 49755>>, <<23025, 4593>>, <<37439, 33444>>, <<43804, 24277>>,
    <<55303, 43672>>, <<4739, 23297>>, <<9265, 34238>>, <<21772, 32195>>,
    <<29374, 23924>>, <<32990, 45566>>, <<39900, 1703>>, <<49563, 61812>>,
    <<58523, 27073>>, <<61374, 18310>>, <<4033, 40390>>, <<9228, 41420>>,
    <<11753, 11375>>, <<19060, 33962>>, <<23728, 43484>>, <<30457, 35034>>,
    <<38974, 20818>>, <<43057, 50797>>, <<45059, 10184>>, <<48985, 32711>>,
    <<50912, 3059>>, <<54695, 37191>>, <<1738, 25425>>, <<5161, 10599>>,
    <<10167, 2693>>, <<11803, 8504>>, <<19756, 28156>>, <<21304, 3347>>,
    <<25866, 29524>>, <<30314, 2747>>, <<33218, 51502>>, <<37490, 11397>>,
    <<41663, 59553>>, <<43034, 26187>>, <<49739, 35696>>, <<51052, 20899>>,
    <<53650, 59417>>, <<54937, 1572>>, <<62478, 13701>>, <<4202, 41072>>,
    <<6564, 49430>>, <<7735, 27656>>, <<10056, 30540>>, <<13488, 48309>>,
    <<14620, 3251>>, <<20184, 43594>>, <<23452, 51791>>, <<26670, 28659>>,
    <<29839, 33518>>, <<30885, 25455>>, <<33992, 30740>>, <<36039, 520>>,
    <<37054, 65530>>, <<42064, 27883>>, <<48889, 41975>>, <<50801, 30962>> >>

sha256StateInit ==
  <<
    <<27145, 58983>>, <<47975, 44677>>, <<15470, 62322>>, <<42319, 62778>>,
    <<20750, 21119>>, <<39685, 26764>>, <<8067, 55723>>, <<23520, 52505>> >>

\* w[0..15]: the block as 16 big-endian words
BlockWords(block) ==
  [i \in 1..16 |->
     <<block[4 * i - 3] * 256 + block[4 * i - 2],
       block[4 * i - 1] * 256 + block[4 * i]>>]

\* w[16..63], one word after the other, from w[0..15]
RECURSIVE Schedule(_)
Schedule(w) ==
  LET i == Len(w) + 1
      s0 == Xor(Xor(rotr(w[i - 15], 7), rotr(w[i - 15], 18)), Shr(w[i - 15], 3))
      s1 == Xor(Xor(rotr(w[i - 2], 17), rotr(w[i - 2], 19)), Shr(w[i - 2], 10))
      next == Append(w, Add(Add(Add(w[i - 16], s0), w[i - 7]), s1))
  IN IF Len(next) = 64 THEN next ELSE Schedule(next)

\* one pass of the round loop on <<a, b, c, d, e, f, g, h>>
Round(v, k, wi) ==
  LET a == v[1]
      b == v[2]
      c == v[3]
      e == v[5]
      f == v[6]
      g == v[7]
      S1 == Xor(Xor(rotr(e, 6), rotr(e, 11)), rotr(e, 25))
      ch == Xor(And(e, f), And(Not(e), g))
      temp1 == Add(Add(Add(Add(v[8], S1), ch), k), wi)
      S0 == Xor(Xor(rotr(a, 2), rotr(a, 13)), rotr(a, 22))
      maj == Xor(Xor(And(a, b), And(a, c)), And(b, c))
      temp2 == Add(S0, maj)
  IN <<Add(temp1, temp2), a, b, c, Add(v[4], temp1), e, f, g>>

\* the round loop from pass i on
RECURSIVE Rounds(_, _, _)
Rounds(v, w, i) ==
  LET next == Round(v, kSha256K[i], w[i])
  IN IF Len(next) = 8 /\ i = 64 THEN next ELSE Rounds(next, w, i + 1)

sha256ProcessBlock(state, block) ==
  LET v == Rounds(state, Schedule(BlockWords(block)), 1)
  IN [i \in 1..8 |-> Add(state[i], v[i])]

\* size_t blockSize = 64
BlockSize == 64

\* mutant: the 0x80 marker is not counted when the room for the length is
\* measured
paddingIndex_NoMarker(remaining) ==
  IF remaining + 8 <= BlockSize THEN BlockSize - 8 ELSE 2 * BlockSize - 8

\* where the 8 length bytes go in finalBlock
paddingIndex(remaining) ==
  IF remaining + 9 <= BlockSize THEN BlockSize - 8 ELSE 2 * BlockSize - 8

\* (bitLength >> bits) & 0xFF on the uint64_t bitLength; the buffers of the
\* model are shorter than 2^28 bytes, so a shift by 31 or more leaves 0
LengthByte(bitLength, bits) ==
  IF bits >= 31 THEN 0 ELSE (bitLength \div 2^bits) % 256

\* uint8_t finalBlock[128] once the tail, the marker and the length are in
finalBlock(bytes) ==
  LET processed == BlockSize * (Len(bytes) \div BlockSize)
      remaining == Len(bytes) - processed
      bitLength == Len(bytes) * 8
      zeroed == [i \in 1..(2 * BlockSize) |-> 0]
      copied == [i \in 1..(2 * BlockSize) |->
                   IF i <= remaining THEN bytes[processed + i] ELSE zeroed[i]]
      marked == [copied EXCEPT ![remaining + 1] = 128]
  IN [i \in 1..(2 * BlockSize) |->
        IF i > paddingIndex(remaining) /\ i <= paddingIndex(remaining) + 8
        THEN LengthByte(bitLength, 56 - (i - paddingIndex(remaining) - 1) * 8)
        ELSE marked[i]]

\* the blocks sha256Hex hands to sha256ProcessBlock, in order
sha256Blocks(bytes) ==
  LET whole == Len(bytes) \div BlockSize
      remaining == Len(bytes) - BlockSize * whole
      final == finalBlock(bytes)
  IN [b \in 1..whole |-> SubSeq(bytes, BlockSize * (b - 1) + 1, BlockSize * b)]
     \o <<SubSeq(final, 1, BlockSize)>>
     \o (IF paddingIndex(remaining) # BlockSize - 8
         THEN <<SubSeq(final, BlockSize + 1, 2 * BlockSize)>>
         ELSE <<>>)

\* the state after the blocks from the i-th on
RECURSIVE ProcessBlocks(_, _, _)
ProcessBlocks(state, blocks, i) ==
  IF i > Len(blocks)
  THEN state
  ELSE LET next == sha256ProcessBlock(state, blocks[i])
       IN IF Len(next) = 8 THEN ProcessBlocks(next, blocks, i + 1) ELSE state

\* operator<< of a value below 2^16 under hex: its digits, lower case
RECURSIVE HexDigits(_)
HexDigits(n) ==
  LET d == n % 16
      ch == IF d < 10 THEN 48 + d ELSE 87 + d
  IN IF n < 16 THEN <<ch>> ELSE Append(HexDigits(n \div 16), ch)

\* setw(width) with setfill('0')
SetW(str, width) ==
  IF Len(str) >= width
  THEN str
  ELSE [i \in 1..(width - Len(str)) |-> 48] \o str

\* oss << setw(8) << word
FormatWord(word) ==
  SetW(IF word[1] = 0
       THEN HexDigits(word[2])
       ELSE HexDigits(word[1]) \o SetW(HexDigits(word[2]), 4),
       8)

\* the string built from the eight state words
FormatState(state) ==
  FormatWord(state[1]) \o FormatWord(state[2]) \o FormatWord(state[3])
  \o FormatWord(state[4]) \o FormatWord(state[5]) \o FormatWord(state[6])
  \o FormatWord(state[7]) \o FormatWord(state[8])

sha256Hex(bytes) ==
  FormatState(ProcessBlocks(sha256StateInit, sha256Blocks(bytes), 1))

(***************************************************************************)
(* sha256Hex on its own                                                    *)
(***************************************************************************)
\* n bytes that differ from their neighbours and reach above 0x7f
Pattern(n, seed) == [i \in 1..n |-> (i * 37 + seed * 101) % 256]

ShaInputs == { Pattern(n, seed) : n \in 0..MaxShaLen, seed \in 0..MaxSeed }

InitSha ==
  /\ InitCall
  /\ fnArgs \in ShaInputs
  /\ fnRet = None

\* the call, with what it handed to sha256ProcessBlock and the final state
sha256HexCall ==
  /\ fnRet = None
  /\ LET blocks == sha256Blocks(fnArgs)
         state == ProcessBlocks(sha256StateInit, blocks, 1)
     IN fnRet' = Some([blocks |-> blocks,
                       state |-> state,
                       hex |-> FormatState(state)])
  /\ UNCHANGED <<pc, caller, srcData, maxBytes, scratchLen, consumeVars,
                 ingestVars, err, fnArgs>>

NextSha == sha256HexCall

SpecSha == InitSha /\ [][NextSha]_vars

RECURSIVE Flatten(_)
Flatten(blocks) ==
  IF blocks = <<>> THEN <<>> ELSE Head(blocks) \o Flatten(Tail(blocks))

\* the value of a string of hex digits 0-9a-f, -1 when it has another character
RECURSIVE HexValue(_)
HexValue(str) ==
  IF str = <<>> THEN 0
  ELSE LET ch == str[Len(str)]
           rest == HexValue(SubSeq(str, 1, Len(str) - 1))
       IN IF rest < 0 THEN -1
          ELSE IF ch \in 48..57 THEN 16 * rest + ch - 48
          ELSE IF ch \in 97..102 THEN 16 * rest + ch - 87
          ELSE -1

\* the SHA-256 digest of the empty input
EmptyDigest ==
  <<
    101, 51, 98, 48, 99, 52, 52, 50, 57, 56, 102, 99, 49, 99, 49, 52, 57,
    97, 102, 98, 102, 52, 99, 56, 57, 57, 54, 102, 98, 57, 50, 52, 50, 55,
    97, 101, 52, 49, 101, 52, 54, 52, 57, 98, 57, 51, 52, 99, 97, 52, 57,
    53, 57, 57, 49, 98, 55, 56, 53, 50, 98, 56, 53, 53 >>

\* C12: for every length n the compression function is fed the n bytes
\* unchanged, one 0x80, zeros, and 8 * n as 8 big-endian bytes, in 64-byte
\* blocks up to the smallest multiple of 64 that is >= n + 9; a second
\* final block is processed exactly when n mod 64 >= 56; the result is 64
\* lower-case hex characters, 8 per state word, also for n = 0 (where it
\* is the digest of the empty input).
C12_PaddingAndHex ==
  fnRet # None =>
    LET n == Len(fnArgs)
        blocks == Get(fnRet).blocks
        message == Flatten(blocks)
        padded == 64 * ((n + 9 + 63) \div 64)
        bits == 8 * n
    IN /\ \A b \in 1..Len(blocks) : Len(blocks[b]) = 64
       /\ Len(message) = padded
       /\ padded >= n + 9 /\ padded - 64 < n + 9
       /\ SubSeq(message, 1, n) = fnArgs
       /\ message[n + 1] = 128
       /\ \A i \in (n + 2)..(padded - 8) : message[i] = 0
       /\ SubSeq(message, padded - 7, padded) =
            <<0, 0, 0, 0, (bits \div 16777216) % 256, (bits \div 65536) % 256,
              (bits \div 256) % 256, bits % 256>>
       /\ Len(blocks) = (n \div 64) + (IF n % 64 >= 56 THEN 2 ELSE 1)
       /\ Len(Get(fnRet).hex) = 64
       /\ \A k \in 1..8 :
            /\ HexValue(SubSeq(Get(fnRet).hex, 8 * k - 7, 8 * k - 4))
                 = Get(fnRet).state[k][1]
            /\ HexValue(SubSeq(Get(fnRet).hex, 8 * k - 3, 8 * k))
                 = Get(fnRet).state[k][2]
       /\ n = 0 => Get(fnRet).hex = EmptyDigest

\* C12 witness: a buffer of more than one block whose tail leaves no room
\* for the length, so that two final blocks are processed
C12_Witness ==
  /\ fnRet # None
  /\ Len(fnArgs) > 64
  /\ Len(fnArgs) % 64 = 56
  /\ Len(Get(fnRet).blocks) = 3

====
